---- MODULE Spec2Model ----
(***************************************************************************)
(* fmu-sumo-sim2sumo: the memory-bounded upload Dispatcher of              *)
(* src/fmu/sumo/sim2sumo/common.py together with the Transfer Unit         *)
(* Packager (convert_2_sumo_file) that feeds it and the nodisk_upload      *)
(* wrapper around the Upload Client (fmu.sumo.uploader upload_files).      *)
(*                                                                         *)
(* The program is single threaded.  Every action below is one whole call   *)
(* of the code: Dispatcher.__init__, convert_2_sumo_file, Dispatcher.add   *)
(* and Dispatcher.finish.  The inputs of a call that the code does not     *)
(* control (the content of the case metadata file, the available memory    *)
(* psutil reports, what the Upload Client does with a batch) are drawn     *)
(* from small sets.  An exception that leaves add() or finish() ends the   *)
(* run (no caller catches it): phase "aborted" has no successor.           *)
(*                                                                         *)
(* Variables named like the attributes of Dispatcher are those attributes  *)
(* (without the leading underscore).  lastCall, lastPack, handed, nAdds    *)
(* and finished are history variables: they record what a call did and     *)
(* are never read by an operator that models code.                         *)
(***************************************************************************)
EXTENDS Integers, Sequences, FiniteSets, TLC

\* ---------------------------------------------------------------- bounds
\* Number of non-None units the driver hands to add() in one run.
MaxAdds == 102
\* Largest byte size of a packaged unit.
MaxSize == 2
\* Largest value of psutil.virtual_memory().available sampled; the samples
\* are MaxAvail - 1 (a budget that is no whole number of bytes) and MaxAvail.
MaxAvail == 6

\* ------------------------------------------------------ program constants
\* self._limit_percent = 0.5, kept as the fraction LimitNum / LimitDen.
LimitNum == 5
LimitDen == 10
\* the count of `self._count > 100` in Dispatcher.add
CountCap == 100

Sizes == 1..MaxSize
AvailSamples == {MaxAvail - 1, MaxAvail}
Ids == 1..MaxAdds

\* What the Upload Client (upload_files) does with a batch: it returns a
\* status report without failures, returns a report with per-object
\* failures, or raises.
ClientOutcomes == {"ok", "partial", "raise"}

\* Content of <case root>/share/metadata/fmu_case.yml.
CaseMetaKinds == {"unreadable", "empty", "nocase", "nouuid", "ok"}

\* Python's None, for an extracted object and for a SumoFile.
NoneObj == [kind |-> "none", nbytes |-> 0]
None == [id |-> 0, size |-> 0]

\* The extracted objects: None, or an object whose serialisation has
\* nbytes bytes.
Objs == {NoneObj} \cup {[kind |-> "table", nbytes |-> s] : s \in Sizes}

VARIABLES
  phase,      \* "new", "ready", "failed" (__init__ raised), "aborted" (an upload raised)
  parentid,   \* Dispatcher._parentid ("" before construction)
  conn,       \* Dispatcher._conn: "none" or "open"
  mem_limit,  \* Dispatcher._mem_limit, in units of 1/LimitDen byte
  mem_count,  \* Dispatcher._mem_count
  count,      \* Dispatcher._count
  objects,    \* Dispatcher._objects
  hand,       \* what convert_2_sumo_file returned and the driver has not yet passed to add()
  nPacked,    \* number of SumoFile objects built so far (identifies the units)
  lastPack,   \* history: what the last convert_2_sumo_file call did
  lastCall,   \* history: what the last Dispatcher call did
  handed,     \* history: per unit, the number of upload_files calls it was part of
  nAdds,      \* history: number of non-None units passed to add()
  finished,   \* history: finish() has returned at least once
  stage,      \* resolver and pipeline functions: where the call under study is
  input,      \* resolver and pipeline functions: the arguments and the environment
  output      \* resolver and pipeline functions: what the call returned and did

\* The variables of the resolver and pipeline specifications; the Dispatcher
\* specification Spec leaves them alone.
pipeVars == <<stage, input, output>>

\* The variables of the Dispatcher specification.
dispVars == <<phase, parentid, conn, mem_limit, mem_count, count, objects,
              hand, nPacked, lastPack, lastCall, handed, nAdds, finished>>

vars == <<phase, parentid, conn, mem_limit, mem_count, count, objects, hand,
          nPacked, lastPack, lastCall, handed, nAdds, finished, stage, input,
          output>>

\* ------------------------------------------------------------ yaml_load
EmptyDict == <<>>

\* The parsed content of the case metadata file, by kind.
CaseMetaContent(kind) ==
  CASE kind = "ok"     -> [fmu |-> [case |-> [uuid |-> "case-uuid"]]]
    [] kind = "nouuid" -> [fmu |-> [case |-> [name |-> "x"]]]
    [] kind = "nocase" -> [fmu |-> [model |-> "x"]]
    [] OTHER           -> EmptyDict

\* yaml_load: an OSError on open is caught and the empty dict returned.
yaml_load(kind) ==
  IF kind = "unreadable" THEN EmptyDict ELSE CaseMetaContent(kind)

HasKey(d, k) == k \in DOMAIN d

\* get_case_uuid: case_meta["fmu"]["case"]["uuid"]; a missing key raises
\* KeyError.
get_case_uuid(kind) ==
  LET case_meta == yaml_load(kind) IN
  IF /\ HasKey(case_meta, "fmu")
     /\ HasKey(case_meta.fmu, "case")
     /\ HasKey(case_meta.fmu["case"], "uuid")
  THEN [raised |-> FALSE, uuid |-> case_meta.fmu["case"].uuid]
  ELSE [raised |-> TRUE, uuid |-> ""]

\* ------------------------------------------------------- nodisk_upload
\* Mutant of nodisk_upload: without the `if len(files) > 0` guard, the
\* Upload Client is called for an empty list too.
nodisk_upload_no_guard(files, outcome) ==
  [called |-> TRUE, raised |-> (outcome = "raise"),
   report |-> IF outcome = "raise" THEN "none" ELSE outcome]

\* Mutant of nodisk_upload: the Upload Client's exception is caught.
nodisk_upload_swallows(files, outcome) ==
  IF Len(files) > 0
  THEN [called |-> TRUE, raised |-> FALSE,
        report |-> IF outcome = "raise" THEN "none" ELSE outcome]
  ELSE [called |-> FALSE, raised |-> FALSE, report |-> "none"]

\* nodisk_upload(files, parent_id, connection): upload_files is called only
\* for a non-empty list; its exception is not caught, its status report is
\* printed and dropped.
nodisk_upload(files, outcome) ==
  IF Len(files) > 0
  THEN [called |-> TRUE, raised |-> (outcome = "raise"),
        report |-> IF outcome = "raise" THEN "none" ELSE outcome]
  ELSE [called |-> FALSE, raised |-> FALSE, report |-> "none"]

\* ------------------------------------------------- Dispatcher._upload
\* Mutant of _upload: `self._objects = []` is missing.
Dispatcher_upload_keeps_objects(objs, memc, outcome) ==
  LET up == nodisk_upload(objs, outcome) IN
  [objects   |-> objs,
   mem_count |-> IF up.raised THEN memc ELSE 0,
   called    |-> up.called,
   raised    |-> up.raised,
   report    |-> up.report,
   batch     |-> objs]

\* Mutant of _upload: `self._mem_count = 0` is missing.
Dispatcher_upload_keeps_bytes(objs, memc, outcome) ==
  LET up == nodisk_upload(objs, outcome) IN
  [objects   |-> IF up.raised THEN objs ELSE <<>>,
   mem_count |-> memc,
   called    |-> up.called,
   raised    |-> up.raised,
   report    |-> up.report,
   batch     |-> objs]

\* Mutant of _upload: the pending state is cleared only when the status
\* report shows no failure.
Dispatcher_upload_clears_on_ok(objs, memc, outcome) ==
  LET up == nodisk_upload(objs, outcome)
      keep == up.raised \/ up.report = "partial" IN
  [objects   |-> IF keep THEN objs ELSE <<>>,
   mem_count |-> IF keep THEN memc ELSE 0,
   called    |-> up.called,
   raised    |-> up.raised,
   report    |-> up.report,
   batch     |-> objs]

\* The attributes after _upload, and what the call did.  When nodisk_upload
\* raises, the two assignments after it are not reached.
Dispatcher_upload(objs, memc, outcome) ==
  LET up == nodisk_upload(objs, outcome) IN
  [objects   |-> IF up.raised THEN objs ELSE <<>>,
   mem_count |-> IF up.raised THEN memc ELSE 0,
   called    |-> up.called,
   raised    |-> up.raised,
   report    |-> up.report,
   batch     |-> objs]

\* --------------------------------------------------- Dispatcher.mem_frac
\* mem_frac > 1, i.e. _mem_count / _mem_limit > 1, for a positive limit
\* (limit is kept in units of 1/LimitDen byte).
mem_frac_above_1(memc, limit) == memc * LimitDen > limit

\* psutil.virtual_memory().available * self._limit_percent.  The samples are
\* positive: a running process never sees 0 bytes available (mem_frac
\* would divide by zero).
sample_mem_limit(avail) == avail * LimitNum

\* The test of Dispatcher.add that decides whether to upload.
time_to_upload(memc, limit, cnt) ==
  mem_frac_above_1(memc, limit) \/ cnt > CountCap

\* lastCall: op is the call; meta the kind of case metadata file __init__
\* read; file the argument of add(); before, memBefore, countBefore and
\* limitBefore the attributes when the call was made; avail the memory
\* sampled in the call; uploads the number of _upload calls it made;
\* clientCalls the number of upload_files calls; batch the list the last
\* _upload passed on; outcome what the Upload Client did if it was called;
\* raised whether the call ended in an exception; report the status report
\* the Upload Client returned.
NoCall == [op |-> "none", meta |-> "", file |-> None, before |-> <<>>,
           memBefore |-> 0, countBefore |-> 0, limitBefore |-> 0,
           avail |-> 0, uploads |-> 0, clientCalls |-> 0, batch |-> <<>>,
           outcome |-> "unused", raised |-> FALSE, report |-> "none"]

NoPack == [made |-> FALSE, obj |-> NoneObj, converterCalls |-> 0,
           metaCalls |-> 0, result |-> None, byte_string |-> <<>>,
           metadata |-> [file |-> [relative_path |-> <<>>]], path |-> <<>>]

\* No Dispatcher has been constructed and nothing has been packaged.
InitDispatcher ==
  /\ phase = "new"
  /\ parentid = ""
  /\ conn = "none"
  /\ mem_limit = 0
  /\ mem_count = 0
  /\ count = 0
  /\ objects = <<>>
  /\ hand = <<>>
  /\ nPacked = 0
  /\ lastPack = NoPack
  /\ lastCall = NoCall
  /\ handed = [i \in Ids |-> 0]
  /\ nAdds = 0
  /\ finished = FALSE

Init ==
  /\ InitDispatcher
  /\ stage = "idle"
  /\ input = <<>>
  /\ output = <<>>

\* ------------------------------------------------- Dispatcher.__init__
\* Mutant of __init__: the connection is opened before the case uuid is
\* read.
Dispatcher_init_connects_first(kind, connects, avail) ==
  LET got == get_case_uuid(kind) IN
  IF ~connects
  THEN [raised |-> TRUE, parentid |-> "", conn |-> "none", mem_limit |-> 0]
  ELSE IF got.raised
  THEN [raised |-> TRUE, parentid |-> "", conn |-> "open", mem_limit |-> 0]
  ELSE [raised |-> FALSE, parentid |-> got.uuid, conn |-> "open",
        mem_limit |-> sample_mem_limit(avail)]

\* The order of __init__: get_case_uuid, then SumoConnection, then the
\* first memory sample.  What __init__ reached before it raised (if it did).
Dispatcher_init(kind, connects, avail) ==
  LET got == get_case_uuid(kind) IN
  IF got.raised
  THEN [raised |-> TRUE, parentid |-> "", conn |-> "none", mem_limit |-> 0]
  ELSE IF ~connects
  THEN [raised |-> TRUE, parentid |-> got.uuid, conn |-> "none", mem_limit |-> 0]
  ELSE [raised |-> FALSE, parentid |-> got.uuid, conn |-> "open",
        mem_limit |-> sample_mem_limit(avail)]

Construct(kind, connects, avail) ==
  /\ phase = "new"
  /\ LET r == Dispatcher_init(kind, connects, avail) IN
     /\ phase' = IF r.raised THEN "failed" ELSE "ready"
     /\ parentid' = r.parentid
     /\ conn' = r.conn
     /\ mem_limit' = r.mem_limit
     /\ lastCall' = [NoCall EXCEPT !.op = "init", !.meta = kind,
                                   !.raised = r.raised,
                                   !.avail = IF r.raised THEN 0 ELSE avail]
  /\ mem_count' = 0
  /\ count' = 0
  /\ objects' = <<>>
  /\ UNCHANGED <<hand, nPacked, lastPack, handed, nAdds, finished>>
  /\ UNCHANGED pipeVars

\* ------------------------------------------------ convert_2_sumo_file
\* The codec: the byte string an object serialises to.
converter(obj) == [i \in 1..obj.nbytes |-> 0]

\* generate_meta(config, datafile_path, tagname, obj, content): the metadata
\* of the export, whose file entry is replaced by the relative path
\* "<relative_parent>/<name>--<tagname>" in lower case (the names used here
\* are lower case already).
generate_meta(relative_parent, name, tagname) ==
  [file |-> [relative_path |-> <<relative_parent, "/", name, "--", tagname>>]]

NoMeta == [file |-> [relative_path |-> <<>>]]

\* The realisation folder and the case name of the run whose results are
\* packaged.
RelativeParent == "realization-0/iter-0"
CaseName == "reek"

\* convert_2_sumo_file with FileOnJob's size left as the constructor set it.
convert_2_sumo_file_keeps_initial_size(obj, id) ==
  IF obj = NoneObj
  THEN [result |-> None, converterCalls |-> 0, metaCalls |-> 0,
        byte_string |-> <<>>, metadata |-> NoMeta, path |-> <<>>]
  ELSE LET bytestring == converter(obj)
           metadata == generate_meta(RelativeParent, CaseName, obj.kind) IN
       [result |-> [id |-> id, size |-> 0],
        converterCalls |-> 1, metaCalls |-> 1,
        byte_string |-> bytestring, metadata |-> metadata,
        path |-> metadata.file.relative_path]

\* convert_2_sumo_file(obj, converter, metacreator, meta_args) for the
\* id-th SumoFile: None is returned for None before the converter and the
\* metacreator are called; otherwise size is len(byte_string).
\* byte_string, metadata and path are the fields of the SumoFile next to
\* its size (NoMeta and no bytes when nothing was made).
convert_2_sumo_file(obj, id) ==
  IF obj = NoneObj
  THEN [result |-> None, converterCalls |-> 0, metaCalls |-> 0,
        byte_string |-> <<>>, metadata |-> NoMeta, path |-> <<>>]
  ELSE LET bytestring == converter(obj)
           metadata == generate_meta(RelativeParent, CaseName, obj.kind) IN
       [result |-> [id |-> id, size |-> Len(bytestring)],
        converterCalls |-> 1, metaCalls |-> 1,
        byte_string |-> bytestring, metadata |-> metadata,
        path |-> metadata.file.relative_path]

\* convert_xtgeo_2_sumo_file(datafile, obj, prefix, config) of grid3d.py:
\* None for None, otherwise convert_2_sumo_file with the xtgeo codec.
convert_xtgeo_2_sumo_file(obj, id) ==
  IF obj = NoneObj
  THEN [result |-> None, converterCalls |-> 0, metaCalls |-> 0,
        byte_string |-> <<>>, metadata |-> NoMeta, path |-> <<>>]
  ELSE convert_2_sumo_file(obj, id)

Packagers == {"table", "xtgeo"}

\* The driver packages one extracted object and holds the result until it
\* passes it to add().
Package(obj, via) ==
  /\ phase = "ready"
  /\ hand = <<>>
  /\ obj # NoneObj => nPacked < MaxAdds
  /\ LET r == IF via = "xtgeo"
              THEN convert_xtgeo_2_sumo_file(obj, nPacked + 1)
              ELSE convert_2_sumo_file(obj, nPacked + 1) IN
     /\ hand' = <<r.result>>
     /\ nPacked' = IF r.result = None THEN nPacked ELSE nPacked + 1
     /\ lastPack' = [made |-> TRUE, obj |-> obj,
                     converterCalls |-> r.converterCalls,
                     metaCalls |-> r.metaCalls, result |-> r.result,
                     byte_string |-> r.byte_string,
                     metadata |-> r.metadata, path |-> r.path]
  /\ UNCHANGED <<phase, parentid, conn, mem_limit, mem_count, count, objects,
                 lastCall, handed, nAdds, finished>>
  /\ UNCHANGED pipeVars

\* ----------------------------------------------------- Dispatcher.add
\* Mutant of add: the `if file is not None` test is missing (None counts
\* as a file of no bytes).
Dispatcher_add_no_none_check(self, file, avail, outcome) ==
  LET memc  == self.mem_count + file.size
      objs  == Append(self.objects, file)
      cnt   == self.count + 1
      limit == sample_mem_limit(avail)
  IN  IF time_to_upload(memc, limit, cnt)
      THEN LET up == Dispatcher_upload(objs, memc, outcome) IN
           [objects |-> up.objects, mem_count |-> up.mem_count,
            count |-> cnt, mem_limit |-> limit, uploads |-> 1,
            clientCalls |-> IF up.called THEN 1 ELSE 0,
            batch |-> up.batch, raised |-> up.raised,
            report |-> up.report]
      ELSE [objects |-> objs, mem_count |-> memc, count |-> cnt,
            mem_limit |-> limit, uploads |-> 0, clientCalls |-> 0,
            batch |-> <<>>, raised |-> FALSE, report |-> "none"]

\* Mutant of add: the threshold test uses the budget sampled by the call
\* before, the new sample is taken after it.
Dispatcher_add_stale_limit(self, file, avail, outcome) ==
  IF file # None
  THEN LET memc  == self.mem_count + file.size
           objs  == Append(self.objects, file)
           cnt   == self.count + 1
           limit == sample_mem_limit(avail)
       IN  IF time_to_upload(memc, self.mem_limit, cnt)
           THEN LET up == Dispatcher_upload(objs, memc, outcome) IN
                [objects |-> up.objects, mem_count |-> up.mem_count,
                 count |-> cnt, mem_limit |-> limit, uploads |-> 1,
                 clientCalls |-> IF up.called THEN 1 ELSE 0,
                 batch |-> up.batch, raised |-> up.raised,
                 report |-> up.report]
           ELSE [objects |-> objs, mem_count |-> memc, count |-> cnt,
                 mem_limit |-> limit, uploads |-> 0, clientCalls |-> 0,
                 batch |-> <<>>, raised |-> FALSE, report |-> "none"]
  ELSE [objects |-> self.objects, mem_count |-> self.mem_count,
        count |-> self.count, mem_limit |-> self.mem_limit, uploads |-> 0,
        clientCalls |-> 0, batch |-> <<>>, raised |-> FALSE,
        report |-> "none"]

\* Mutant of add: the upload is decided on the memory fraction alone.
Dispatcher_add_no_count_test(self, file, avail, outcome) ==
  IF file # None
  THEN LET memc  == self.mem_count + file.size
           objs  == Append(self.objects, file)
           cnt   == self.count + 1
           limit == sample_mem_limit(avail)
       IN  IF mem_frac_above_1(memc, limit)
           THEN LET up == Dispatcher_upload(objs, memc, outcome) IN
                [objects |-> up.objects, mem_count |-> up.mem_count,
                 count |-> cnt, mem_limit |-> limit, uploads |-> 1,
                 clientCalls |-> IF up.called THEN 1 ELSE 0,
                 batch |-> up.batch, raised |-> up.raised,
                 report |-> up.report]
           ELSE [objects |-> objs, mem_count |-> memc, count |-> cnt,
                 mem_limit |-> limit, uploads |-> 0, clientCalls |-> 0,
                 batch |-> <<>>, raised |-> FALSE, report |-> "none"]
  ELSE [objects |-> self.objects, mem_count |-> self.mem_count,
        count |-> self.count, mem_limit |-> self.mem_limit, uploads |-> 0,
        clientCalls |-> 0, batch |-> <<>>, raised |-> FALSE,
        report |-> "none"]

\* self is the record of the attributes add() reads and writes.  The
\* result holds the attributes after the call and what the call did.
Dispatcher_add(self, file, avail, outcome) ==
  IF file # None
  THEN LET memc  == self.mem_count + file.size
           objs  == Append(self.objects, file)
           cnt   == self.count + 1
           limit == sample_mem_limit(avail)
       IN  IF time_to_upload(memc, limit, cnt)
           THEN LET up == Dispatcher_upload(objs, memc, outcome) IN
                [objects |-> up.objects, mem_count |-> up.mem_count,
                 count |-> cnt, mem_limit |-> limit, uploads |-> 1,
                 clientCalls |-> IF up.called THEN 1 ELSE 0,
                 batch |-> up.batch, raised |-> up.raised,
                 report |-> up.report]
           ELSE [objects |-> objs, mem_count |-> memc, count |-> cnt,
                 mem_limit |-> limit, uploads |-> 0, clientCalls |-> 0,
                 batch |-> <<>>, raised |-> FALSE, report |-> "none"]
  ELSE [objects |-> self.objects, mem_count |-> self.mem_count,
        count |-> self.count, mem_limit |-> self.mem_limit, uploads |-> 0,
        clientCalls |-> 0, batch |-> <<>>, raised |-> FALSE,
        report |-> "none"]

\* Mutant of finish: the final upload is made only when a threshold is
\* crossed.
Dispatcher_finish_if_threshold(self, outcome) ==
  IF time_to_upload(self.mem_count, self.mem_limit, self.count)
  THEN LET up == Dispatcher_upload(self.objects, self.mem_count, outcome) IN
       [objects |-> up.objects, mem_count |-> up.mem_count,
        count |-> self.count, mem_limit |-> self.mem_limit, uploads |-> 1,
        clientCalls |-> IF up.called THEN 1 ELSE 0, batch |-> up.batch,
        raised |-> up.raised, report |-> up.report]
  ELSE [objects |-> self.objects, mem_count |-> self.mem_count,
        count |-> self.count, mem_limit |-> self.mem_limit, uploads |-> 0,
        clientCalls |-> 0, batch |-> <<>>, raised |-> FALSE,
        report |-> "none"]

\* Dispatcher.finish: _upload, whatever is pending.
Dispatcher_finish(self, outcome) ==
  LET up == Dispatcher_upload(self.objects, self.mem_count, outcome) IN
  [objects |-> up.objects, mem_count |-> up.mem_count, count |-> self.count,
   mem_limit |-> self.mem_limit, uploads |-> 1,
   clientCalls |-> IF up.called THEN 1 ELSE 0, batch |-> up.batch,
   raised |-> up.raised, report |-> up.report]

Self == [objects |-> objects, mem_count |-> mem_count, count |-> count,
         mem_limit |-> mem_limit]

\* The history of hand-overs: every unit of a batch given to upload_files
\* is counted once more.
Handed(r) ==
  IF r.clientCalls = 0 THEN handed
  ELSE [i \in Ids |->
          handed[i] + Cardinality({k \in 1..Len(r.batch) : r.batch[k].id = i})]

Apply(op, file, avail, outcome, r) ==
  /\ objects' = r.objects
  /\ mem_count' = r.mem_count
  /\ count' = r.count
  /\ mem_limit' = r.mem_limit
  /\ phase' = IF r.raised THEN "aborted" ELSE phase
  /\ handed' = Handed(r)
  /\ lastCall' = [op |-> op, meta |-> "", file |-> file, before |-> objects,
                  memBefore |-> mem_count, countBefore |-> count,
                  limitBefore |-> mem_limit,
                  avail |-> IF op = "add" /\ file # None THEN avail ELSE 0,
                  uploads |-> r.uploads, clientCalls |-> r.clientCalls,
                  batch |-> r.batch,
                  outcome |-> IF r.clientCalls > 0 THEN outcome ELSE "unused",
                  raised |-> r.raised, report |-> r.report]

\* The driver passes what it holds to add().  An exception of the Upload
\* Client leaves add() and ends the run.
Add(avail, outcome) ==
  /\ phase = "ready"
  /\ hand # <<>>
  /\ Apply("add", hand[1], avail, outcome,
           Dispatcher_add(Self, hand[1], avail, outcome))
  /\ hand' = <<>>
  /\ nAdds' = IF hand[1] = None THEN nAdds ELSE nAdds + 1
  /\ UNCHANGED <<parentid, conn, nPacked, lastPack, finished>>
  /\ UNCHANGED pipeVars

Finish(outcome) ==
  /\ phase = "ready"
  /\ LET r == Dispatcher_finish(Self, outcome) IN
     /\ Apply("finish", None, 0, outcome, r)
     /\ finished' = (finished \/ ~r.raised)
  /\ UNCHANGED <<parentid, conn, hand, nPacked, lastPack, nAdds>>
  /\ UNCHANGED pipeVars

Next ==
  \/ \E kind \in CaseMetaKinds, connects \in BOOLEAN, avail \in AvailSamples :
        Construct(kind, connects, avail)
  \/ \E obj \in Objs, via \in Packagers : Package(obj, via)
  \/ \E avail \in AvailSamples, outcome \in ClientOutcomes : Add(avail, outcome)
  \/ \E outcome \in ClientOutcomes : Finish(outcome)

Spec == Init /\ [][Next]_vars

\* ------------------------------------------------- a long stream of units
\* A run on a machine with memory to spare: units of one byte, and samples
\* of the available memory whose half holds every unit of the run.
AmpleAvail == 2 * MaxAdds + 2
StreamAvailSamples == {AmpleAvail}
StreamObjs == {[kind |-> "table", nbytes |-> 1]}

NextStream ==
  \/ \E avail \in StreamAvailSamples : Construct("ok", TRUE, avail)
  \/ \E obj \in StreamObjs : Package(obj, "table")
  \/ \E avail \in StreamAvailSamples, outcome \in {"ok", "raise"} :
        Add(avail, outcome)
  \/ \E outcome \in {"ok", "raise"} : Finish(outcome)

SpecStream == Init /\ [][NextStream]_vars

TypeOK ==
  /\ phase \in {"new", "ready", "failed", "aborted"}
  /\ count \in 0..MaxAdds
  /\ mem_count \in Nat
  /\ Len(hand) <= 1

\* ===================================================================
\* The claims
\* ===================================================================

\* The last call was add() of a file that is not None.
AddedFile == lastCall.op = "add" /\ lastCall.file # None

\* That add() made the pending bytes exceed the budget of 50% of the memory
\* sampled in it, or the count exceed 100.
Crossed ==
  \/ 2 * (lastCall.memBefore + lastCall.file.size) > lastCall.avail
  \/ lastCall.countBefore + 1 > 100

IdsOf(seq) == {seq[k].id : k \in 1..Len(seq)}

\* C1 (as stated): whenever an add() of a non-None unit makes the pending
\* bytes exceed the budget sampled in that add(), or the pending count
\* exceed 100, an upload is made before add() returns and, the upload having
\* returned, the pending count is 0 and the pending bytes are 0.
C1_FlushResetsCountAndBytes ==
  (AddedFile /\ Crossed /\ ~lastCall.raised) =>
    /\ lastCall.uploads = 1
    /\ mem_count = 0
    /\ objects = <<>>
    /\ count = 0

\* C2: once finish() has returned, and the Upload Client never raised, every
\* non-None unit passed to add() has been part of exactly one batch given to
\* the Upload Client; in no state is a unit part of two batches, and a unit
\* is either pending or handed over.
C2_EveryUnitHandedExactlyOnce ==
  /\ \A i \in Ids : handed[i] <= 1
  /\ phase # "aborted" =>
       \A i \in 1..nAdds : (handed[i] = 0) <=> (i \in IdsOf(objects))
  /\ (lastCall.op = "finish" /\ ~lastCall.raised) =>
       \A i \in Ids : handed[i] = IF i <= nAdds THEN 1 ELSE 0

\* C2 witness: finish() has returned after several add() calls, one of which
\* uploaded a batch itself, and finish() handed over the rest.
C2_Witness ==
  /\ lastCall.op = "finish" /\ ~lastCall.raised
  /\ nAdds >= 3
  /\ Len(lastCall.batch) >= 1
  /\ \E i \in 1..nAdds : handed[i] = 1 /\ i \notin IdsOf(lastCall.batch)

\* C3: finish() with a non-empty pending list makes exactly one upload call,
\* and the list given to the Upload Client is the pending list as it was.
C3_FinishHandsOverPending ==
  (lastCall.op = "finish" /\ lastCall.before # <<>>) =>
    /\ lastCall.uploads = 1
    /\ lastCall.clientCalls = 1
    /\ lastCall.batch = lastCall.before
    /\ \A i \in IdsOf(lastCall.before) : handed[i] = 1

\* C3 witness: finish() returned with two or more units pending.
C3_Witness ==
  /\ lastCall.op = "finish" /\ ~lastCall.raised
  /\ Len(lastCall.before) >= 2

\* C4 (as stated): finish() with nothing pending hands the empty list to the
\* Upload Client.
C4_EmptyFinishCallsClient ==
  (lastCall.op = "finish" /\ lastCall.before = <<>>) =>
    lastCall.clientCalls = 1

\* C4 (amended): finish() with nothing pending makes the _upload call with
\* the empty list, but nodisk_upload does not call the Upload Client for an
\* empty list; nothing is raised and the pending state stays empty.
C4_EmptyFinishSkipsClient ==
  (lastCall.op = "finish" /\ lastCall.before = <<>>) =>
    /\ lastCall.uploads = 1
    /\ lastCall.batch = <<>>
    /\ lastCall.clientCalls = 0
    /\ ~lastCall.raised
    /\ objects = <<>>
    /\ mem_count = 0

\* C4 witness: finish() was called on a Dispatcher with nothing pending.
C4_Witness ==
  /\ lastCall.op = "finish"
  /\ lastCall.before = <<>>
  /\ lastCall.memBefore = 0

\* C5: after every _upload that returned, from add() or from finish(), the
\* pending list is empty and the pending bytes are 0, whatever the status
\* report was; and no unit is ever part of two batches.
C5_FlushAlwaysClears ==
  /\ (lastCall.uploads = 1 /\ ~lastCall.raised) =>
       (objects = <<>> /\ mem_count = 0)
  /\ \A i \in Ids : handed[i] <= 1

\* C5 witness: an add() flushed, and the Upload Client returned a report of
\* partial failure.
C5_Witness ==
  /\ lastCall.op = "add"
  /\ lastCall.uploads = 1
  /\ lastCall.report = "partial"
  /\ Len(lastCall.batch) >= 2

\* C6: the Packager returns None for a None object without calling the codec
\* or the metadata generator; add(None) leaves the pending list, the count,
\* the bytes and the budget as they were and makes no upload; None is never
\* in the pending list nor in a batch.
C6_NoneNeverReachesDispatcher ==
  /\ (lastPack.made /\ lastPack.obj = NoneObj) =>
       /\ lastPack.result = None
       /\ lastPack.converterCalls = 0
       /\ lastPack.metaCalls = 0
  /\ (lastCall.op = "add" /\ lastCall.file = None) =>
       /\ objects = lastCall.before
       /\ count = lastCall.countBefore
       /\ mem_count = lastCall.memBefore
       /\ mem_limit = lastCall.limitBefore
       /\ lastCall.uploads = 0
       /\ lastCall.clientCalls = 0
  /\ \A k \in 1..Len(objects) : objects[k] # None
  /\ \A k \in 1..Len(lastCall.batch) : lastCall.batch[k] # None

\* C6 witness: None was packaged and passed to add() of a Dispatcher that
\* had units pending.
C6_Witness ==
  /\ lastPack.made /\ lastPack.obj = NoneObj
  /\ lastCall.op = "add" /\ lastCall.file = None
  /\ lastCall.before # <<>>

\* C7 (as stated): once finish() has returned the pending list stays empty:
\* no add() made later puts a unit into it or triggers an upload.
C7_NoAddAfterFinish ==
  finished =>
    /\ objects = <<>>
    /\ lastCall.op = "add" => lastCall.clientCalls = 0

\* C7 (amended): when finish() has returned the pending list is empty and the
\* pending bytes are 0; the Dispatcher has no finished state: an add() made
\* after finish() is treated like any other add(), its unit is appended to
\* the pending list or uploaded at once.
C7_FinishLeavesEmptyAddStillAccepted ==
  /\ (lastCall.op = "finish" /\ ~lastCall.raised) =>
       (objects = <<>> /\ mem_count = 0)
  /\ (finished /\ AddedFile /\ ~lastCall.raised) =>
       IF Crossed
       THEN lastCall.batch = Append(lastCall.before, lastCall.file)
            /\ objects = <<>>
       ELSE objects = Append(lastCall.before, lastCall.file)

\* C7 witness: after finish() returned, an add() put a unit into the pending
\* list.
C7_Witness ==
  /\ finished
  /\ AddedFile
  /\ objects # <<>>

\* C8: when the case metadata file is unreadable or lacks fmu.case.uuid,
\* __init__ raises before the connection is opened, and no unit is ever
\* handed to the Upload Client.
C8_BadCaseMetaFailsBeforeNetwork ==
  /\ (lastCall.op = "init" /\ lastCall.meta # "ok") =>
       /\ lastCall.raised
       /\ phase = "failed"
       /\ conn = "none"
       /\ parentid = ""
  /\ phase = "failed" =>
       /\ lastCall.op = "init"
       /\ objects = <<>>
       /\ \A i \in Ids : handed[i] = 0

\* C8 witness: construction was tried with a case metadata file that has no
\* uuid entry.
C8_Witness ==
  /\ lastCall.op = "init"
  /\ lastCall.meta = "nouuid"
  /\ phase = "failed"

\* C9: when the Upload Client raises, the add() or finish() that made the
\* upload ends in that exception, after one call of the Upload Client; the
\* pending state is not cleared.
C9_UploadExceptionPropagates ==
  (lastCall.clientCalls > 0 /\ lastCall.outcome = "raise") =>
    /\ lastCall.op \in {"add", "finish"}
    /\ lastCall.raised
    /\ lastCall.clientCalls = 1
    /\ phase = "aborted"
    /\ objects = lastCall.batch

\* C9 witness: the Upload Client raised in an upload made by add().
C9_Witness ==
  /\ lastCall.op = "add"
  /\ lastCall.outcome = "raise"
  /\ lastCall.raised

\* C10: after add() of a non-None unit the budget is 50% of the memory
\* sampled in that call, and the call made an upload exactly when the
\* pending bytes exceeded that budget or the count exceeded 100.
C10_BudgetResampledBeforeTest ==
  AddedFile =>
    /\ 2 * mem_limit = lastCall.avail * LimitDen
    /\ (lastCall.uploads = 1) <=> Crossed

\* C10 witness: an add() whose new sample is below the budget held before,
\* so that the bytes exceed the new budget but not the old one.
C10_Witness ==
  /\ AddedFile
  /\ lastCall.op = "add"
  /\ lastCall.limitBefore # mem_limit
  /\ (lastCall.memBefore + lastCall.file.size) * LimitDen <= lastCall.limitBefore
  /\ lastCall.countBefore + 1 <= 100
  /\ lastCall.uploads = 1

\* ================================================================ give_name
\* Strings are sequences of one-character strings.
Digits == {"0", "1", "2", "3", "4", "5", "6", "7", "8", "9"}

\* The largest number of atoms in the stem part of a generated file name.
MaxAtoms == 3

\* The pieces file names are built from: a letter, a run index digit, a dash
\* and the text of a file suffix.
StemAtoms == {<<"R">>, <<"1">>, <<"-">>, <<".", "i", "n">>}
SuffixAtoms == {<<".", "D", "A", "T", "A">>, <<".", "i", "n">>}

RECURSIVE StemsOfLen(_)
StemsOfLen(n) ==
  IF n = 0 THEN {<<>>}
  ELSE {a \o t : a \in StemAtoms, t \in StemsOfLen(n - 1)}

Stems == UNION {StemsOfLen(n) : n \in 0..MaxAtoms}
FileNames == {st \o sf : st \in Stems, sf \in SuffixAtoms}
FolderPrefixes == {<<>>, <<"m", "/">>}
DatafilePaths == {d \o f : d \in FolderPrefixes, f \in FileNames}

\* The largest index of s that holds c, 0 when there is none (str.rfind).
rfind(s, c) ==
  LET hits == {i \in 1..Len(s) : s[i] = c} IN
  IF hits = {} THEN 0 ELSE CHOOSE i \in hits : \A j \in hits : j <= i

\* Path(p).name: the last component of the path.
Path_name(p) == SubSeq(p, rfind(p, "/") + 1, Len(p))

\* Path(p).suffix: the name from its last dot on, empty when that dot is the
\* first or the last character of the name or when there is no dot.
Path_suffix(p) ==
  LET name == Path_name(p)
      i == rfind(name, ".") IN
  IF 1 < i /\ i < Len(name) THEN SubSeq(name, i, Len(name)) ELSE <<>>

\* Path(p).stem: the name without its suffix.
Path_stem(p) ==
  LET name == Path_name(p)
      i == rfind(name, ".") IN
  IF 1 < i /\ i < Len(name) THEN SubSeq(name, 1, i - 1) ELSE name

\* s.replace(old, ""): every non-overlapping occurrence of old is removed,
\* scanning from the left; an empty old leaves s as it is.
RECURSIVE str_replace(_, _)
str_replace(s, old) ==
  IF old = <<>> \/ Len(s) < Len(old) THEN s
  ELSE IF SubSeq(s, 1, Len(old)) = old
       THEN str_replace(SubSeq(s, Len(old) + 1, Len(s)), old)
       ELSE <<s[1]>> \o str_replace(Tail(s), old)

\* The while loop of give_name: base_name[-1] raises IndexError on the empty
\* string.
RECURSIVE strip_loop(_)
strip_loop(base_name) ==
  IF base_name = <<>> THEN [raised |-> TRUE, value |-> <<>>]
  ELSE IF base_name[Len(base_name)] \in Digits
          \/ base_name[Len(base_name)] = "-"
       THEN strip_loop(SubSeq(base_name, 1, Len(base_name) - 1))
       ELSE [raised |-> FALSE, value |-> base_name]

\* give_name(datafile_path).
give_name(datafile_path) ==
  strip_loop(str_replace(Path_name(datafile_path), Path_suffix(datafile_path)))

\* The specification of give_name: one call on a path drawn from
\* DatafilePaths.
InitName ==
  /\ InitDispatcher
  /\ stage = "called"
  /\ input \in {[datafile_path |-> p] : p \in DatafilePaths}
  /\ output = <<>>

GiveName ==
  /\ stage = "called"
  /\ stage' = "returned"
  /\ output' = give_name(input.datafile_path)
  /\ UNCHANGED input
  /\ UNCHANGED dispVars

NextName == GiveName

SpecName == InitName /\ [][NextName]_vars

\* ====================================================== find_datafile_paths
DotDATA == <<".", "D", "A", "T", "A">>
DotIn == <<".", "i", "n">>
DotTxt == <<".", "t", "x", "t">>

\* The largest number of files the glob of find_datafiles_no_seedpoint
\* returns.
MaxFiles == 3

\* The files a run path can hold: R-1.DATA and R-2.DATA in one realisation
\* folder, R-1.DATA in another, R.in, R.in.in, S-1.DATA, a file whose stem is
\* a run index only, a text file and a hidden file.
DirFiles ==
  { <<"m", "/", "R", "-", "1">> \o DotDATA,
    <<"m", "/", "R", "-", "2">> \o DotDATA,
    <<"n", "/", "R", "-", "1">> \o DotDATA,
    <<"m", "/", "R">> \o DotIn,
    <<"m", "/", "R">> \o DotIn \o DotIn,
    <<"m", "/", "S", "-", "1">> \o DotDATA,
    <<"m", "/", "1">> \o DotDATA,
    <<"m", "/", "R">> \o DotTxt,
    <<"m", "/">> \o DotDATA }

\* The sequences without repetition of at most n elements of S: the orders
\* in which the glob can yield the files of a folder tree.
RECURSIVE Listings(_, _)
Listings(S, n) ==
  IF n = 0 THEN {<<>>}
  ELSE {<<>>} \cup {<<f>> \o t : f \in S, t \in Listings(S, n - 1)}

HasNoRepetition(seq) ==
  \A i, j \in 1..Len(seq) : seq[i] = seq[j] => i = j

Globs == {l \in Listings(DirFiles, MaxFiles) : HasNoRepetition(l)}

valid_filetypes == {<<".", "a", "f", "i">>, DotDATA, DotIn}

IsDatafile(file) == Path_suffix(file) \in valid_filetypes

\* find_datafiles_no_seedpoint(): the files the glob yields whose suffix is
\* a valid file type, in the order of the glob.
find_datafiles_no_seedpoint(glob) == SelectSeq(glob, IsDatafile)

\* The loop of find_datafile_paths over the files left, with the dict built
\* so far: the first path of a name is kept.  A give_name that raises ends
\* the call.
RECURSIVE find_datafile_paths_loop(_, _)
find_datafile_paths_loop(files, paths) ==
  IF files = <<>> THEN [raised |-> FALSE, paths |-> paths]
  ELSE LET data_path == Head(files)
           name == give_name(data_path) IN
       IF name.raised THEN [raised |-> TRUE, paths |-> <<>>]
       ELSE IF name.value \notin DOMAIN paths
            THEN find_datafile_paths_loop(Tail(files),
                                          paths @@ (name.value :> data_path))
            ELSE find_datafile_paths_loop(Tail(files), paths)

\* find_datafile_paths() in a run path whose glob yields the given files.
find_datafile_paths(glob) ==
  find_datafile_paths_loop(find_datafiles_no_seedpoint(glob), <<>>)

InitPaths ==
  /\ InitDispatcher
  /\ stage = "called"
  /\ input \in {[glob |-> g] : g \in Globs}
  /\ output = <<>>

FindDatafilePaths ==
  /\ stage = "called"
  /\ stage' = "returned"
  /\ output' = find_datafile_paths(input.glob)
  /\ UNCHANGED input
  /\ UNCHANGED dispVars

NextPaths == FindDatafilePaths

SpecPaths == InitPaths /\ [][NextPaths]_vars

\* ======================================================= create_config_dict
\* A Python dict is the sequence of its <<key, value>> pairs in insertion
\* order; a value that can have several Python types is a record of its
\* kind ("none", "str", "list", "dict") and its content.
dict_keyset(d) == {d[i][1] : i \in 1..Len(d)}

dict_get(d, key, default) ==
  IF key \in dict_keyset(d)
  THEN d[CHOOSE i \in 1..Len(d) : d[i][1] = key][2]
  ELSE default

\* d[key] = value: an existing key keeps its place.
dict_set(d, key, value) ==
  IF key \in dict_keyset(d)
  THEN [i \in 1..Len(d) |-> IF d[i][1] = key THEN <<key, value>> ELSE d[i]]
  ELSE Append(d, <<key, value>>)

dict_values(d) == {d[i][2] : i \in 1..Len(d)}

PyNone == [kind |-> "none", v |-> <<>>]
PyStr(x) == [kind |-> "str", v |-> x]
PyList(x) == [kind |-> "list", v |-> x]
PyDict(x) == [kind |-> "dict", v |-> x]

\* SUBMODULES and SUBMOD_DICT[submod]["options"]: the names of the
\* parameters of the extractor of each registered submodule.
SUBMODULES == <<"summary", "rft", "satfunc", "grid">>

SUBMOD_DICT ==
  [summary |-> [options |-> {"column_keys", "time_index"}],
   rft |-> [options |-> {"wellname", "date"}],
   satfunc |-> [options |-> {"keywords"}],
   grid |-> [options |-> {"vectors", "zonemap"}]]

IsSubmod(submod) == submod \in DOMAIN SUBMOD_DICT

\* convert_lyrlist_to_zonemap(parse_lyrfile(file)).
zonemap_of(file) == <<"zonemap", file>>

\* filter_options(submod, kwargs): KeyError for a submodule that is not
\* registered, AttributeError for kwargs that is not a dict.
filter_options(submod, kwargs) ==
  IF ~IsSubmod(submod) THEN [exc |-> "KeyError", value |-> <<>>]
  ELSE IF kwargs.kind # "dict" THEN [exc |-> "AttributeError", value |-> <<>>]
  ELSE
    LET submod_options == SUBMOD_DICT[submod].options
        kept(pair) == pair[1] \in submod_options
                      \/ pair[1] \in {"arrow", "md_log_file"}
        filtered == dict_set(SelectSeq(kwargs.v, kept), "arrow",
                             dict_get(kwargs.v, "arrow", TRUE))
        converted ==
          IF "zonemap" \in dict_keyset(filtered)
          THEN dict_set(filtered, "zonemap",
                        zonemap_of(dict_get(filtered, "zonemap", "")))
          ELSE filtered IN
    [exc |-> "none", value |-> converted]

\* find_full_path(datafile, paths): the path stored under the derived name,
\* None when there is none; IndexError when give_name raises.
find_full_path(datafile, paths) ==
  LET data_name == give_name(datafile) IN
  IF data_name.raised THEN [exc |-> "IndexError", value |-> PyNone]
  ELSE IF data_name.value \in DOMAIN paths
       THEN [exc |-> "none", value |-> PyStr(paths[data_name.value])]
       ELSE [exc |-> "none", value |-> PyNone]

\* find_datafiles taking a string seedpoint for no seedpoint at all.
find_datafiles_ignores_string(seedpoint, simconfig, glob) ==
  LET seed == dict_get(simconfig, "datafile", seedpoint) IN
  IF seed.kind \in {"none", "str"}
  THEN PyList(find_datafiles_no_seedpoint(glob))
  ELSE IF seed.kind = "list" THEN PyList(seed.v)
  ELSE seed

\* find_datafiles(seedpoint, simconfig): the datafile entry of the
\* configuration is taken before the seedpoint given by the caller; a
\* string becomes a list of one, a list is copied, anything else (a
\* mapping) is returned as it is.
find_datafiles(seedpoint, simconfig, glob) ==
  LET seed == dict_get(simconfig, "datafile", seedpoint) IN
  IF seed.kind = "none" THEN PyList(find_datafiles_no_seedpoint(glob))
  ELSE IF seed.kind = "str" THEN PyList(<<seed.v>>)
  ELSE IF seed.kind = "list" THEN PyList(seed.v)
  ELSE seed

\* The elements a Python for loop over the value yields: the elements of a
\* list, the keys of a dict.
IterOf(x) ==
  IF x.kind = "dict" THEN [i \in 1..Len(x.v) |-> x.v[i][1]] ELSE x.v

\* The inner loop of create_config_dict_from_list over the submodules left:
\* inner[submod] = filter_options(submod, suboptions).
RECURSIVE from_list_submods(_, _, _)
from_list_submods(submods, suboptions, inner) ==
  IF submods = <<>> THEN [exc |-> "none", value |-> inner]
  ELSE LET f == filter_options(Head(submods), suboptions) IN
       IF f.exc # "none" THEN [exc |-> f.exc, value |-> inner]
       ELSE from_list_submods(Tail(submods), suboptions,
                              dict_set(inner, Head(submods), f.value))

\* The loop of create_config_dict_from_list over the datafiles left.
RECURSIVE from_list_loop(_, _, _, _, _, _)
from_list_loop(datafiles, submods, options, paths, grid3d, outdict) ==
  IF datafiles = <<>> THEN [exc |-> "none", value |-> outdict]
  ELSE
    LET datafile_path == find_full_path(Head(datafiles), paths) IN
    IF datafile_path.exc # "none"
    THEN [exc |-> datafile_path.exc, value |-> outdict]
    ELSE IF datafile_path.value.kind = "none"
    THEN from_list_loop(Tail(datafiles), submods, options, paths, grid3d,
                        outdict)
    ELSE
      LET suboptions == IF submods.kind = "dict"
                        THEN [kind |-> "dict_values", v |-> submods.v]
                        ELSE options
          inner == from_list_submods(IterOf(submods), suboptions, <<>>) IN
      IF inner.exc # "none" THEN [exc |-> inner.exc, value |-> outdict]
      ELSE from_list_loop(Tail(datafiles), submods, options, paths, grid3d,
             dict_set(outdict, datafile_path.value.v,
                      dict_set(inner.value, "grid3d", grid3d)))

DefaultSubmods == <<"summary", "rft", "satfunc">>

\* create_config_dict_from_list binding the default submodules whatever the
\* configuration declares.
create_config_dict_from_list_default_datatypes(datatype, simconfig, datafiles, paths, grid3d) ==
  from_list_loop(datafiles, PyList(DefaultSubmods),
                 dict_get(simconfig, "options", PyDict(<<<<"arrow", TRUE>>>>)),
                 paths, grid3d, <<>>)

\* create_config_dict_from_list(datatype, simconfig, datafiles, paths,
\* grid3d).
create_config_dict_from_list(datatype, simconfig, datafiles, paths, grid3d) ==
  LET configured == dict_get(simconfig, "datatypes", PyList(DefaultSubmods))
      submods ==
        IF datatype.kind # "none" THEN PyList(<<datatype.v>>)
        ELSE IF configured.kind = "str" /\ configured.v = "all"
             THEN PyList(SUBMODULES)
             ELSE configured
      options == dict_get(simconfig, "options",
                          PyDict(<<<<"arrow", TRUE>>>>)) IN
  from_list_loop(datafiles, submods, options, paths, grid3d, <<>>)

\* The loop `for submod, options in datafiles[datafile].items()` of
\* create_config_dict_from_dict over the items left.
RECURSIVE from_dict_items(_, _)
from_dict_items(items, inner) ==
  IF items = <<>> THEN [exc |-> "none", value |-> inner]
  ELSE LET submod == Head(items)[1]
           f == filter_options(submod, Head(items)[2]) IN
       IF f.exc # "none" THEN [exc |-> f.exc, value |-> inner]
       ELSE from_dict_items(Tail(items), dict_set(inner, submod, f.value))

\* The loop of the except AttributeError branch: every submodule gets empty
\* options.
RECURSIVE from_dict_fallback(_, _)
from_dict_fallback(submods, inner) ==
  IF submods = <<>> THEN inner
  ELSE from_dict_fallback(Tail(submods), dict_set(inner, Head(submods), <<>>))

\* The body of the try statement for one entry of the mapping: .items()
\* raises AttributeError for a value that is not a dict, and so does
\* filter_options for options that are not a dict; any other exception
\* leaves the call.
from_dict_entry(entry) ==
  LET tried == IF entry.kind = "dict" THEN from_dict_items(entry.v, <<>>)
               ELSE [exc |-> "AttributeError", value |-> <<>>] IN
  IF tried.exc = "AttributeError"
  THEN IF entry.kind = "none" THEN [exc |-> "TypeError", value |-> <<>>]
       ELSE [exc |-> "none",
             value |-> from_dict_fallback(IterOf(entry), tried.value)]
  ELSE tried

\* The loop of create_config_dict_from_dict over the keys left.
RECURSIVE from_dict_loop(_, _, _, _, _)
from_dict_loop(keys, datafiles, paths, grid3d, outdict) ==
  IF keys = <<>> THEN [exc |-> "none", value |-> outdict]
  ELSE
    LET datafile == Head(keys)
        datafile_path == find_full_path(datafile, paths) IN
    IF datafile_path.exc # "none"
    THEN [exc |-> datafile_path.exc, value |-> outdict]
    ELSE IF datafile_path.value.kind = "none"
    THEN from_dict_loop(Tail(keys), datafiles, paths, grid3d, outdict)
    ELSE
      LET inner == from_dict_entry(dict_get(datafiles, datafile, PyNone)) IN
      IF inner.exc # "none" THEN [exc |-> inner.exc, value |-> outdict]
      ELSE from_dict_loop(Tail(keys), datafiles, paths, grid3d,
             dict_set(outdict, datafile_path.value.v,
                      dict_set(inner.value, "grid3d", grid3d)))

\* create_config_dict_from_dict(datafiles, paths, grid3d).
create_config_dict_from_dict(datafiles, paths, grid3d) ==
  from_dict_loop(IterOf(PyDict(datafiles)), datafiles, paths, grid3d, <<>>)

\* create_config_dict(config, datafile, datatype) in a run path whose glob
\* yields the given files.  paths and datafiles are reported next to the
\* returned dict.
create_config_dict(config, datafile, datatype, glob) ==
  LET simconfig == dict_get(config, "sim2sumo", PyDict(<<>>)).v
      grid3d == dict_get(simconfig, "grid3d", FALSE)
      datafiles == find_datafiles(datafile, simconfig, glob)
      paths == find_datafile_paths(glob)
      outdict ==
        IF datafiles.kind = "dict"
        THEN create_config_dict_from_dict(datafiles.v, paths.paths, grid3d)
        ELSE create_config_dict_from_list(datatype, simconfig, datafiles.v,
                                          paths.paths, grid3d) IN
  IF paths.raised
  THEN [exc |-> "IndexError", value |-> <<>>, paths |-> <<>>,
        datafiles |-> datafiles]
  ELSE [exc |-> outdict.exc,
        value |-> IF outdict.exc = "none" THEN outdict.value ELSE <<>>,
        paths |-> paths.paths, datafiles |-> datafiles]

\* ------------------------------------------ the configurations explored
\* Run paths: empty, one with the single file R-0.DATA, two cases, two
\* realisations of one case, and one with a file whose stem is a run index
\* only.
ConfigGlobs ==
  { <<>>,
    << <<"m", "/", "R", "-", "0">> \o DotDATA >>,
    << <<"m", "/", "R", "-", "1">> \o DotDATA,
       <<"m", "/", "S", "-", "1">> \o DotDATA >>,
    << <<"m", "/", "R", "-", "1">> \o DotDATA,
       <<"n", "/", "R", "-", "1">> \o DotDATA >>,
    << <<"m", "/", "R", "-", "1">> \o DotDATA,
       <<"m", "/", "1">> \o DotDATA >> }

\* Configured datafile names: two that name cases of the run paths, a full
\* file name, one that names no case and one made of a run index only.
NameR == <<"R">>
NameS == <<"S">>
NameRFile == <<"R", "-", "1">> \o DotDATA
NameX == <<"X">>
NameOne == <<"1">>

OptionSamples ==
  { <<>>,
    << <<"arrow", FALSE>> >>,
    << <<"arrow", TRUE>>, <<"bogus", "v">> >>,
    << <<"column_keys", "v">> >>,
    << <<"md_log_file", "v">> >>,
    << <<"zonemap", "v">>, <<"arrow", FALSE>>, <<"bogus", "v">> >> }

\* The values a mapping-shaped datafile entry gives to a file name: a
\* mapping of submodules to options, or a list of submodules.
EntrySamples ==
  {PyDict(<< <<"summary", PyDict(o)>> >>) : o \in OptionSamples}
  \cup {PyDict(<< <<"grid", PyDict(o)>>, <<"rft", PyDict(<<>>)>> >>) :
          o \in OptionSamples}
  \cup {PyDict(<< <<"summary", PyNone>> >>),
        PyList(<<"summary", "rft">>), PyList(<<>>)}

DatafileSamples ==
  {PyStr(n) : n \in {NameR, NameRFile, NameX, NameOne}}
  \cup {PyList(l) : l \in {<<>>, <<NameR>>, <<NameR, NameS>>, <<NameX>>,
                           <<NameX, NameR>>, <<NameR, NameRFile>>,
                           <<NameOne>>}}
  \cup {PyDict(<< <<n, e>> >>) : n \in {NameR, NameX}, e \in EntrySamples}
  \cup {PyDict(<< <<NameR, PyList(<<"summary">>)>>,
                  <<NameS, PyDict(<< <<"rft", PyDict(<<>>)>> >>)>> >>),
        PyDict(<< <<NameOne, PyList(<<"summary">>)>> >>)}

DatatypesSamples ==
  {PyList(<<"summary">>), PyList(<<"rft", "grid">>), PyStr("all")}

\* With(d, key, X): the dicts d and d with key set to a value of X.
With(D, key, X) == D \cup {Append(d, <<key, x>>) : d \in D, x \in X}

SimConfigs ==
  With(With(With(With({<<>>}, "datafile", DatafileSamples),
                 "datatypes", DatatypesSamples),
            "options", {PyDict(o) : o \in OptionSamples}),
       "grid3d", {TRUE})

Configs == {<<>>} \cup {<< <<"sim2sumo", PyDict(sc)>> >> : sc \in SimConfigs}

InitConfig ==
  /\ InitDispatcher
  /\ stage = "called"
  /\ input \in [config : Configs,
                datafile : {PyNone, PyStr(NameS)},
                datatype : {PyNone, PyStr("satfunc")},
                glob : ConfigGlobs]
  /\ output = <<>>

CreateConfigDict ==
  /\ stage = "called"
  /\ stage' = "returned"
  /\ output' = create_config_dict(input.config, input.datafile,
                                  input.datatype, input.glob)
  /\ UNCHANGED input
  /\ UNCHANGED dispVars

NextConfig == CreateConfigDict

SpecConfig == InitConfig /\ [][NextConfig]_vars

\* ------------------------------------------------ resolving a second time
\* filter_options writing the arrow default into the kwargs it was given.
filter_options_kwargs_after_in_place(kwargs) ==
  IF kwargs.kind = "dict"
  THEN PyDict(dict_set(kwargs.v, "arrow", dict_get(kwargs.v, "arrow", TRUE)))
  ELSE kwargs

\* The kwargs object after filter_options(submod, kwargs): `filtered` is a
\* new dict built by the comprehension, and the assignments of "arrow" and
\* "zonemap" go to it; kwargs is only read.
filter_options_kwargs_after(kwargs) == kwargs

\* The value of a mapping-shaped datafile entry after the call: each
\* options object in it has been handed to filter_options.
entry_after(entry) ==
  IF entry.kind = "dict"
  THEN PyDict([k \in 1..Len(entry.v) |->
                 <<entry.v[k][1], filter_options_kwargs_after(entry.v[k][2])>>])
  ELSE entry

\* The configuration object after create_config_dict(config): the objects
\* the call reaches through config.get, simconfig.get and
\* datafiles[datafile].items() are the configuration's own; the only callee
\* they are handed to is filter_options.  find_datafiles appends to and
\* extends its own new list, and outdict is new.
config_after(config) ==
  LET section(pair) ==
        IF pair[1] = "options"
        THEN <<"options", filter_options_kwargs_after(pair[2])>>
        ELSE IF pair[1] = "datafile" /\ pair[2].kind = "dict"
        THEN <<"datafile",
               PyDict([k \in 1..Len(pair[2].v) |->
                         <<pair[2].v[k][1], entry_after(pair[2].v[k][2])>>])>>
        ELSE pair IN
  [c \in 1..Len(config) |->
     IF config[c][1] = "sim2sumo"
     THEN <<"sim2sumo",
            PyDict([k \in 1..Len(config[c][2].v) |-> section(config[c][2].v[k])])>>
     ELSE config[c]]

\* Two calls of create_config_dict on one configuration object in one run
\* path: given is the configuration as it was before the first call.
InitTwice ==
  /\ InitDispatcher
  /\ stage = "called"
  /\ input \in {[given |-> c, config |-> c, glob |-> g] :
                  c \in Configs, g \in ConfigGlobs}
  /\ output = <<>>

Resolve ==
  /\ stage \in {"called", "once"}
  /\ stage' = IF stage = "called" THEN "once" ELSE "twice"
  /\ output' = Append(output,
                      create_config_dict(input.config, PyNone, PyNone,
                                         input.glob))
  /\ input' = [input EXCEPT !.config = config_after(@)]
  /\ UNCHANGED dispVars

NextTwice == Resolve

SpecTwice == InitTwice /\ [][NextTwice]_vars

\* ========================================================== table fragments
\* The packaging of a wide table with index columns in hidden fragments.
\* The largest number of columns of a table.
MaxCols == 7

\* The column-count windows of a fragment.
ChunkWindows == {3, 4}

\* The columns of seq (in order) that are in S, and those that are not.
RECURSIVE ColumnsIn(_, _)
ColumnsIn(seq, S) ==
  IF seq = <<>> THEN <<>>
  ELSE (IF Head(seq) \in S THEN <<Head(seq)>> ELSE <<>>)
       \o ColumnsIn(Tail(seq), S)

\* The fragments of the data columns left, each of them the index columns
\* followed by the next `per` data columns, numbered from ordinal on, with
\* the hidden flag set.
RECURSIVE table_fragments(_, _, _, _)
table_fragments(index_cols, data_cols, per, ordinal) ==
  IF data_cols = <<>> THEN <<>>
  ELSE LET n == IF Len(data_cols) < per THEN Len(data_cols) ELSE per IN
       <<[columns |-> index_cols \o SubSeq(data_cols, 1, n),
          fragment |-> ordinal, hidden |-> TRUE]>>
       \o table_fragments(index_cols, SubSeq(data_cols, n + 1, Len(data_cols)),
                          per, ordinal + 1)

\* The packager taking the whole window for the data columns of a fragment.
convert_table_2_sumo_files_full_window(columns, table_index, window) ==
  LET index_cols == ColumnsIn(columns, table_index)
      colset == {columns[k] : k \in 1..Len(columns)}
      data_cols == ColumnsIn(columns, colset \ table_index)
      primary == [columns |-> columns, fragment |-> 0, hidden |-> FALSE] IN
  IF index_cols # <<>> /\ Len(columns) > window /\ Len(index_cols) < window
  THEN <<primary>> \o table_fragments(index_cols, data_cols, window, 1)
  ELSE <<primary>>

\* The units the packager makes of a table: the primary unit with the
\* columns of the table and, for a table with index columns that has more
\* columns than the window, the fragments.
convert_table_2_sumo_files(columns, table_index, window) ==
  LET index_cols == ColumnsIn(columns, table_index)
      colset == {columns[k] : k \in 1..Len(columns)}
      data_cols == ColumnsIn(columns, colset \ table_index)
      primary == [columns |-> columns, fragment |-> 0, hidden |-> FALSE] IN
  IF index_cols # <<>> /\ Len(columns) > window /\ Len(index_cols) < window
  THEN <<primary>> \o table_fragments(index_cols, data_cols,
                                      window - Len(index_cols), 1)
  ELSE <<primary>>

\* Tables of one to MaxCols columns, at most two of them index columns.
InitChunk ==
  /\ InitDispatcher
  /\ stage = "called"
  /\ input \in {[columns |-> [k \in 1..n |-> k], table_index |-> ix,
                  window |-> w] :
                  n \in 1..MaxCols,
                  ix \in {x \in SUBSET (1..MaxCols) : Cardinality(x) <= 2},
                  w \in ChunkWindows}
  /\ input.table_index \subseteq 1..Len(input.columns)
  /\ output = <<>>

PackageTable ==
  /\ stage = "called"
  /\ stage' = "returned"
  /\ output' = convert_table_2_sumo_files(input.columns, input.table_index,
                                          input.window)
  /\ UNCHANGED input
  /\ UNCHANGED dispVars

NextChunk == PackageTable

SpecChunk == InitChunk /\ [][NextChunk]_vars

\* ============================================================== get_results
\* What the extractor of a submodule (extract_df on the ResdataFiles of the
\* re-suffixed datafile path, with the converted options) does: it returns
\* a pandas frame or raises.
ExtractOutcomes ==
  {"frame", "RuntimeError", "TypeError", "FileNotFoundError", "ValueError",
   "KeyError", "OSError"}

\* What the arrow convertor registered for the submodule does with a frame.
\* ArrowInvalid is a subclass of ValueError.
ConvertOutcomes ==
  {"table", "ArrowInvalid", "TypeError", "ValueError", "RuntimeError",
   "KeyError"}

\* find_arrow_convertor(path): the _df2pyarrow of the res2df module, or
\* convert_to_arrow for a module that has none.
ArrowConvertors == {"df2pyarrow", "convert_to_arrow"}

NoFrame == [kind |-> "None", tidied |-> FALSE, by |-> "none"]

\* The frame of the extractor, tidied for rft.
PandasFrame(submod) ==
  [kind |-> "pandas", tidied |-> submod = "rft", by |-> "none"]

ArrowTable(frame, convertor) ==
  [frame EXCEPT !.kind = "arrow", !.by = convertor]

\* The exceptions the outer try statement of get_results handles.
HandledByGetResults ==
  {"RuntimeError", "TypeError", "FileNotFoundError", "ValueError"}

\* What get_results has to report before anything has happened.
NoResults == [exc |-> "none", value |-> NoFrame, convertorCalls |-> <<>>,
              trace |-> "none", help |-> FALSE]

\* The outer try statement when exception e is raised inside it with the
\* results so far r: the handler of RuntimeError prints the help text, the
\* other handlers keep the exception as the trace, and an exception without
\* a handler leaves get_results.
outer_try(r, e, handled) ==
  IF e \notin handled THEN [r EXCEPT !.exc = e]
  ELSE IF e = "RuntimeError" THEN [r EXCEPT !.help = TRUE]
  ELSE [r EXCEPT !.trace = e]

\* The body of get_results with the given handlers of the outer try
\* statement.
get_results_body(submod, kwargs, convertor, extract, convert, handled) ==
  LET arrow == dict_get(kwargs, "arrow", TRUE) IN
  IF ~IsSubmod(submod) THEN [NoResults EXCEPT !.exc = "KeyError"]
  ELSE IF extract # "frame" THEN outer_try(NoResults, extract, handled)
  ELSE
    LET frame == [NoResults EXCEPT !.value = PandasFrame(submod)] IN
    IF ~arrow THEN frame
    ELSE
      LET called == [frame EXCEPT !.convertorCalls = <<convertor>>] IN
      IF convert = "table"
      THEN [called EXCEPT !.value = ArrowTable(frame.value, convertor)]
      ELSE IF convert \in {"ArrowInvalid", "TypeError"} THEN called
      ELSE outer_try(called, convert, handled)

\* get_results without the handler of ValueError.
get_results_no_ValueError(submod, kwargs, convertor, extract, convert) ==
  get_results_body(submod, kwargs, convertor, extract, convert,
                   HandledByGetResults \ {"ValueError"})

\* get_results trying convert_to_arrow when the registered convertor raises
\* ArrowInvalid.
get_results_generic_fallback(submod, kwargs, convertor, extract, convert) ==
  LET r == get_results_body(submod, kwargs, convertor, extract, convert,
                            HandledByGetResults) IN
  IF IsSubmod(submod) /\ extract = "frame" /\ dict_get(kwargs, "arrow", TRUE)
     /\ convert = "ArrowInvalid"
  THEN [r EXCEPT !.value = ArrowTable(PandasFrame(submod), "convert_to_arrow"),
                 !.convertorCalls = <<convertor, "convert_to_arrow">>]
  ELSE r

\* get_results(datafile_path, submod, **kwargs) of tables.py, given what the
\* extractor and the registered convertor do.  KeyError for a submodule that
\* is not registered; the extraction and the conversion run inside the try
\* statement, whose handlers leave output as it was when the exception was
\* raised.
get_results(submod, kwargs, convertor, extract, convert) ==
  get_results_body(submod, kwargs, convertor, extract, convert,
                   HandledByGetResults)

ExtractSubmods == {"summary", "rft", "typo"}

ExtractOptions ==
  {<<>>, << <<"arrow", TRUE>> >>, << <<"arrow", FALSE>> >>,
   << <<"column_keys", "v">>, <<"bogus", "v">> >>}

InitExtract ==
  /\ InitDispatcher
  /\ stage = "called"
  /\ input \in [submod : ExtractSubmods, kwargs : ExtractOptions,
                convertor : ArrowConvertors, extract : ExtractOutcomes,
                convert : ConvertOutcomes]
  /\ output = <<>>

GetResults ==
  /\ stage = "called"
  /\ stage' = "returned"
  /\ output' = get_results(input.submod, input.kwargs, input.convertor,
                           input.extract, input.convert)
  /\ UNCHANGED input
  /\ UNCHANGED dispVars

NextExtract == GetResults

SpecExtract == InitExtract /\ [][NextExtract]_vars

\* ======================================================= export_with_config
\* export_object(datafile_path, submod, config_file, frame, content): the
\* path the object is exported to, as the export of the earlier
\* export_results gives it: the text "Nothing produced" for None.
export_object(datafile, submod, frame) ==
  IF frame = NoFrame
  THEN [parent |-> ".", name |-> "Nothing produced", suffix |-> ""]
  ELSE [parent |-> "share/results/tables", name |-> <<datafile, submod>>,
        suffix |-> IF frame.kind = "arrow" THEN ".arrow" ELSE ".csv"]

\* export_results(datafile_path, submod, config_file, **kwargs), given what
\* the extractor does for the pair.
export_results(datafile, submod, kwargs, extract) ==
  LET frame == get_results(submod, kwargs, "df2pyarrow", extract, "table") IN
  IF frame.exc # "none" THEN [exc |-> frame.exc, exp_path |-> PyNone]
  ELSE [exc |-> "none",
        exp_path |-> export_object(datafile, submod, frame.value)]

\* What export_with_config has to report before its loops start.
NoExports == [exc |-> "none", attempted |-> <<>>, count |-> 0,
              export_folder |-> "None", suffixes |-> {}]

\* The nested loops of export_with_config from datafile i and submodule j
\* on, with the report so far: every pair is handed to export_results, whose
\* exception ends the loops.
RECURSIVE export_loop(_, _, _, _, _, _, _)
export_loop(datafiles, submods, options, env, i, j, r) ==
  IF i > Len(datafiles) THEN r
  ELSE IF j > Len(submods)
  THEN export_loop(datafiles, submods, options, env, i + 1, 1, r)
  ELSE
    LET e == export_results(datafiles[i], submods[j], options, env[<<i, j>>])
        tried == [r EXCEPT !.attempted = Append(@, <<i, j>>)] IN
    IF e.exc # "none" THEN [tried EXCEPT !.exc = e.exc]
    ELSE export_loop(datafiles, submods, options, env, i, j + 1,
           [tried EXCEPT !.count = @ + 1,
                         !.export_folder = e.exp_path.parent,
                         !.suffixes = @ \cup {e.exp_path.suffix}])

\* export_with_config(config_path, datafile, datatype) once read_config has
\* returned datafiles, submods and options; env gives what the extractor
\* does for each pair.  FileNotFoundError is handled by the outer try
\* statement, any other exception leaves the call.
export_with_config(datafiles, submods, options, env) ==
  LET r == export_loop(datafiles, submods, options, env, 1, 1, NoExports) IN
  IF r.exc = "FileNotFoundError"
  THEN [r EXCEPT !.exc = "none", !.export_folder = "None"]
  ELSE r

PairOutcomes == {"frame", "ValueError", "OSError"}

ExportDatafiles == {<<"A">>, <<"A", "B">>}
ExportSubmods == {<<"summary">>, <<"summary", "rft">>, <<"typo", "rft">>}

InitExport ==
  /\ InitDispatcher
  /\ stage = "called"
  /\ \E d \in ExportDatafiles, sm \in ExportSubmods :
       input \in {[datafiles |-> d, submods |-> sm,
                   options |-> << <<"arrow", TRUE>> >>, env |-> e] :
                  e \in [(1..Len(d)) \X (1..Len(sm)) -> PairOutcomes]}
  /\ output = <<>>

ExportWithConfig ==
  /\ stage = "called"
  /\ stage' = "returned"
  /\ output' = export_with_config(input.datafiles, input.submods,
                                  input.options, input.env)
  /\ UNCHANGED input
  /\ UNCHANGED dispVars

NextExport == ExportWithConfig

SpecExport == InitExport /\ [][NextExport]_vars

\* =========================================================== upload_restart
\* The length of tosumo above which the inner loop uploads.
BatchLimit == 50

\* The largest number of property names given to upload_restart.
MaxProps == 3

\* The numbers of time steps of the restart file.
StepCounts == {0, 1, 2, 51}

\* What a property name yields: a property at every time step, no such
\* property in the file (import_gridprop_from_restart raises ValueError), a
\* property with a single value (make_xtgeo_prop returns None), or a
\* property that has a single value at the even time steps.
PropKinds == {"found", "missing", "constant", "mixed"}

RECURSIVE PropsOfLen(_)
PropsOfLen(n) ==
  IF n = 0 THEN {<<>>}
  ELSE {<<k>> \o t : k \in PropKinds, t \in PropsOfLen(n - 1)}

\* count and tosumo when upload_restart starts, the batches handed to
\* nodisk_upload so far, and the place in the two loops: the prop-th
\* property name and the step-th time step are next.
NoRestart == [count |-> 0, tosumo |-> <<>>, batches |-> <<>>,
              prop |-> 1, step |-> 1]

\* The body of the loop over the time steps for a property name of the
\* given kind: a ValueError goes on with the next time step, a property
\* that is not None is converted and appended, and tosumo is uploaded and
\* emptied when it holds more than BatchLimit units.
restart_step(kind, r) ==
  LET is_none == kind = "constant" \/ (kind = "mixed" /\ r.step % 2 = 0)
      added == IF is_none THEN r
               ELSE [r EXCEPT !.tosumo = Append(@, [prop |-> r.prop,
                                                    step |-> r.step]),
                              !.count = @ + 1]
      after == IF Len(added.tosumo) > BatchLimit
               THEN [added EXCEPT !.batches = Append(@, added.tosumo),
                                  !.tosumo = <<>>]
               ELSE added IN
  IF kind = "missing" THEN [r EXCEPT !.step = @ + 1]
  ELSE [after EXCEPT !.step = @ + 1]

\* The end of the body of the loop over the property names: a tosumo that
\* is not empty is uploaded; it is not emptied.
restart_prop_done(r) ==
  LET after == IF Len(r.tosumo) > 0
               THEN [r EXCEPT !.batches = Append(@, r.tosumo)]
               ELSE r IN
  [after EXCEPT !.prop = @ + 1, !.step = 1]

\* upload_restart(restart_path, xtgeoegrid, time_steps, config, parentid,
\* prop_names, env) is called on a restart file.
InitRestart ==
  /\ InitDispatcher
  /\ stage = "called"
  /\ input \in [props : UNION {PropsOfLen(n) : n \in 1..MaxProps},
                nsteps : StepCounts]
  /\ output = NoRestart

\* One pass of the inner loop.
RestartStep ==
  /\ stage = "called"
  /\ output.prop <= Len(input.props)
  /\ output.step <= input.nsteps
  /\ output' = restart_step(input.props[output.prop], output)
  /\ UNCHANGED <<stage, input>>
  /\ UNCHANGED dispVars

\* The inner loop is over for a property name.
RestartPropDone ==
  /\ stage = "called"
  /\ output.prop <= Len(input.props)
  /\ output.step > input.nsteps
  /\ output' = restart_prop_done(output)
  /\ UNCHANGED <<stage, input>>
  /\ UNCHANGED dispVars

\* The outer loop is over: count is returned.
RestartReturn ==
  /\ stage = "called"
  /\ output.prop > Len(input.props)
  /\ stage' = "returned"
  /\ UNCHANGED <<input, output>>
  /\ UNCHANGED dispVars

NextRestart == RestartStep \/ RestartPropDone \/ RestartReturn

SpecRestart == InitRestart /\ [][NextRestart]_vars

\* ===================================================================== main
\* The largest number of datafiles read_config gives the driver.
MaxDatafiles == 2

\* What a datafile of the run meets in upload_simulation_run: whether its
\* grid file can be read, whether the case metadata above it holds the case
\* uuid, and what the upload client does with the grid.
RunEnvs == [grid : {"ok", "missing"}, casemeta : {"ok", "bad"},
            upload : {"ok", "raise"}]

RECURSIVE RunsOfLen(_)
RunsOfLen(n) ==
  IF n = 0 THEN {<<>>}
  ELSE {<<r>> \o t : r \in RunEnvs, t \in RunsOfLen(n - 1)}

\* What main has to report when it starts: the calls of read_config, the
\* Dispatchers constructed, the calls of add() and finish(), the datafiles
\* handed to upload_simulation_run, the grids uploaded with nodisk_upload,
\* and whether upload_tables was called and main returned.
NoRun == [exc |-> "none", resolverCalls |-> 0, dispatchers |-> 0,
          adds |-> 0, finishCalls |-> 0, runsStarted |-> 0,
          gridsUploaded |-> 0, tablesCalled |-> FALSE, completed |-> FALSE]

\* upload_simulation_run(datafile, config, env): the grid is read, the case
\* uuid is looked up, the grid is uploaded with nodisk_upload, then the init
\* and restart properties; no exception is handled.
upload_simulation_run(run, r) ==
  LET started == [r EXCEPT !.runsStarted = @ + 1] IN
  IF run.grid = "missing" THEN [started EXCEPT !.exc = "OSError"]
  ELSE IF run.casemeta = "bad" THEN [started EXCEPT !.exc = "KeyError"]
  ELSE IF run.upload = "raise" THEN [started EXCEPT !.exc = "UploadError"]
  ELSE [started EXCEPT !.gridsUploaded = @ + 1]

\* upload_simulation_runs(datafiles, config, env).
RECURSIVE upload_simulation_runs(_, _)
upload_simulation_runs(runs, r) ==
  IF runs = <<>> THEN r
  ELSE LET one == upload_simulation_run(Head(runs), r) IN
       IF one.exc # "none" THEN one
       ELSE upload_simulation_runs(Tail(runs), one)

\* The grid3d entry of the sim2sumo section: absent, true or false.
Grid3dEntries == {"absent", "true", "false"}

\* read_config(config, datafile, datatype) of main.py, as far as the toggle
\* goes: the dict returned has the key grid3d whatever the configuration
\* holds, with simconfig.get("grid3d", True) as its value.
read_config(grid3d) ==
  [datafiles |-> "datafiles", submods |-> "submods", options |-> "options",
   grid3d |-> (grid3d # "false")]

\* main(): the help text, or read_config, upload_simulation_runs if the
\* key grid3d is in the dict read_config returned, and upload_tables.
main(help_on, grid3d, runs) ==
  IF help_on # "No help" THEN [NoRun EXCEPT !.completed = TRUE]
  ELSE
    LET sim2sumoconfig == read_config(grid3d)
        resolved == [NoRun EXCEPT !.resolverCalls = @ + 1]
        grids == IF "grid3d" \in DOMAIN sim2sumoconfig
                 THEN upload_simulation_runs(runs, resolved)
                 ELSE resolved IN
    IF grids.exc # "none" THEN grids
    ELSE [grids EXCEPT !.tablesCalled = TRUE, !.completed = TRUE]

InitMain ==
  /\ InitDispatcher
  /\ stage = "called"
  /\ input \in [help_on : {"No help", "summary"},
                grid3d : Grid3dEntries,
                runs : UNION {RunsOfLen(n) : n \in 0..MaxDatafiles}]
  /\ output = <<>>

Main ==
  /\ stage = "called"
  /\ stage' = "returned"
  /\ output' = main(input.help_on, input.grid3d, input.runs)
  /\ UNCHANGED input
  /\ UNCHANGED dispVars

NextMain == Main

SpecMain == InitMain /\ [][NextMain]_vars

\* ============================================================ generate_meta
\* str.lower() on the letters used in paths and tagnames.
UpperCase == <<"A", "B", "D", "G", "I", "N", "P", "R", "S", "T">>
LowerCase == <<"a", "b", "d", "g", "i", "n", "p", "r", "s", "t">>

str_lower(s) ==
  [k \in 1..Len(s) |->
     IF \E u \in 1..Len(UpperCase) : UpperCase[u] = s[k]
     THEN LowerCase[CHOOSE u \in 1..Len(UpperCase) : UpperCase[u] = s[k]]
     ELSE s[k]]

\* Path(p).parents[n]: IndexError when p has fewer than n + 1 ancestors.
RECURSIVE Path_parents(_, _)
Path_parents(p, n) ==
  LET i == rfind(p, "/")
      parent == IF i = 0 THEN <<".">>
                ELSE IF i = 1 THEN <<"/">> ELSE SubSeq(p, 1, i - 1) IN
  IF p = <<"/">> \/ p = <<".">> THEN [raised |-> TRUE, value |-> <<>>]
  ELSE IF n = 0 THEN [raised |-> FALSE, value |-> parent]
  ELSE Path_parents(parent, n - 1)

\* The text "<relative_parent>/<name>--<tagname>" of generate_meta, where
\* name is give_name(datafile_path) and relative_parent is parents[2] with
\* every occurrence of parents[4] removed.
relative_path_text(datafile_path, tagname) ==
  LET name == give_name(datafile_path)
      p2 == Path_parents(datafile_path, 2)
      p4 == Path_parents(datafile_path, 4)
      relative_parent == str_replace(p2.value, p4.value) IN
  IF name.raised \/ p2.raised \/ p4.raised
  THEN [exc |-> "IndexError", name |-> <<>>, path |-> <<>>]
  ELSE [exc |-> "none", name |-> name.value,
        path |-> relative_parent \o <<"/">> \o name.value
                 \o <<"-", "-">> \o tagname]

\* generate_meta_relative_path without the lower-casing.
generate_meta_relative_path_as_written(datafile_path, tagname) ==
  relative_path_text(datafile_path, tagname)

\* The destination of the unit convert_2_sumo_file packages with
\* generate_meta(config, datafile_path, tagname, obj, content): sumo_file.path
\* is metadata["file"]["relative_path"], the text above in lower case.
generate_meta_relative_path(datafile_path, tagname) ==
  LET text == relative_path_text(datafile_path, tagname) IN
  [text EXCEPT !.path = str_lower(@)]

\* The folders above the simulator files: a scratch root of one or two
\* folders above realisation, iteration, eclipse and model, and a run path
\* that is too shallow.
MetaFolders ==
  { <<"/", "s", "/", "r", "/", "i", "/", "e", "/", "m", "/">>,
    <<"/", "u", "/", "s", "/", "r", "/", "i", "/", "e", "/", "m", "/">>,
    <<"/", "S", "/", "r", "/", "i", "/", "e", "/", "m", "/">>,
    <<"/", "e", "/", "m", "/">> }

MetaFiles ==
  { <<"R", "-", "0">> \o DotDATA, <<"r", "-", "0">> \o DotDATA,
    <<"R", "b", "-", "1">> \o DotIn, <<"d", "r", "-", "1", "0">> \o DotDATA,
    <<"S">> \o DotDATA, <<"1">> \o DotDATA }

\* Tagnames: a submodule of the tables, the grid, and an INIT property.
MetaTagnames ==
  { <<"s", "u", "m", "m", "a", "r", "y">>, <<"g", "r", "i", "d">>,
    <<"I", "N", "I", "T", "-", "P">> }

InitMeta ==
  /\ InitDispatcher
  /\ stage = "called"
  /\ input \in [datafile_path : {d \o f : d \in MetaFolders, f \in MetaFiles},
                tagname : MetaTagnames]
  /\ output = <<>>

GenerateMeta ==
  /\ stage = "called"
  /\ stage' = "returned"
  /\ output' = generate_meta_relative_path(input.datafile_path, input.tagname)
  /\ UNCHANGED input
  /\ UNCHANGED dispVars

NextMeta == GenerateMeta

SpecMeta == InitMeta /\ [][NextMeta]_vars

\* ------------------------------------------------------------------ C11
\* C11: every SumoFile returned by convert_2_sumo_file has a size equal to
\* the length of its byte string and a path equal to the
\* file.relative_path entry of the metadata generated for it.
C11_SizeAndPathFromPayloadAndMeta ==
  (lastPack.made /\ lastPack.result # None) =>
    /\ lastPack.result.size = Len(lastPack.byte_string)
    /\ lastPack.path = lastPack.metadata.file.relative_path
    /\ lastPack.path =
         <<RelativeParent, "/", CaseName, "--", lastPack.obj.kind>>

\* A SumoFile with a payload of more than one byte has been returned.
C11_Witness ==
  /\ lastPack.made
  /\ lastPack.result # None
  /\ Len(lastPack.byte_string) = MaxSize
  /\ lastPack.converterCalls = 1

\* ------------------------------------------------------------------ C17
\* The stem with every trailing digit and dash removed, possibly empty.
RECURSIVE StripTrailing(_)
StripTrailing(t) ==
  IF t # <<>> /\ (t[Len(t)] \in Digits \/ t[Len(t)] = "-")
  THEN StripTrailing(SubSeq(t, 1, Len(t) - 1))
  ELSE t

\* C17: the name give_name returns for a path is the path's file stem with
\* its trailing digits and dashes stripped and nothing else changed, also
\* when the suffix text occurs inside the stem.
C17_NameIsStemStripped ==
  (stage = "returned" /\ ~output.raised) =>
    output.value = StripTrailing(Path_stem(input.datafile_path))

\* ------------------------------------------------------------------ C16
\* The Case Name of a path: its stem without trailing digits and dashes.
CaseNameOf(path) == StripTrailing(Path_stem(path))

Range(f) == {f[x] : x \in DOMAIN f}

\* C16: find_datafile_paths returns, for every set of discovered simulator
\* files, exactly one path per distinct Case Name, and it is the first file
\* with that Case Name in the order of the glob.
C16_OnePathPerCaseNameFirstWins ==
  stage = "returned" =>
    LET files == find_datafiles_no_seedpoint(input.glob)
        kept == Range(output.paths) IN
    /\ ~output.raised
    /\ \A i \in 1..Len(files) :
         files[i] \in kept <=>
           \A j \in 1..(i - 1) : CaseNameOf(files[j]) # CaseNameOf(files[i])

\* ------------------------------------------------------------------ C18
\* The sim2sumo section of the configuration of the call, and its datafile
\* entry after the seedpoint of the caller has been taken into account.
SimConfigOf(inp) == dict_get(inp.config, "sim2sumo", PyDict(<<>>)).v

SeedOf(inp) == dict_get(SimConfigOf(inp), "datafile", inp.datafile)

\* The datafiles the configuration of the call names.
ConfiguredDatafiles(inp) ==
  LET seed == SeedOf(inp) IN
  IF seed.kind = "none"
  THEN {inp.glob[i] : i \in {k \in 1..Len(inp.glob) : IsDatafile(inp.glob[k])}}
  ELSE IF seed.kind = "str" THEN {seed.v}
  ELSE IF seed.kind = "list" THEN {seed.v[i] : i \in 1..Len(seed.v)}
  ELSE dict_keyset(seed.v)

\* C18: create_config_dict returns without an error; every key of the
\* returned dict is a path found by find_datafile_paths; the keys are the
\* paths of the configured datafiles that resolve, so that an entry which
\* resolves to nothing gives no key and the dict is empty when nothing
\* resolves.
C18_KeysAreResolvedPaths ==
  stage = "returned" =>
    /\ output.exc = "none"
    /\ dict_keyset(output.value) \subseteq Range(output.paths)
    /\ dict_keyset(output.value) =
         {output.paths[n] :
            n \in {CaseNameOf(d) : d \in ConfiguredDatafiles(input)}
                  \cap DOMAIN output.paths}

\* ------------------------------------------------------------------ C19
\* C19 as stated: a datafile entry that is a string or a mapping makes
\* create_config_dict raise.
C19_NonListDatafileIsError ==
  (stage = "returned"
   /\ dict_get(SimConfigOf(input), "datafile", PyNone).kind
        \in {"str", "dict"}) =>
    output.exc # "none"

\* The submodules bound to a path of the returned dict.
SubmodsAt(outdict, path) == dict_keyset(dict_get(outdict, path, <<>>))

\* C19 amended: a datafile entry that is a bare string is accepted and
\* gives what the list holding that one string gives; a mapping is accepted
\* and binds to every file it names, and that resolves, the submodules it
\* gives for that file (and the grid3d flag).
C19_StringIsListOfOneMappingIsPerFile ==
  stage = "returned" =>
    LET simconfig == SimConfigOf(input)
        entry == dict_get(simconfig, "datafile", PyNone)
        aslist == << <<"sim2sumo",
                       PyDict(dict_set(simconfig, "datafile",
                                       PyList(<<entry.v>>)))>> >> IN
    /\ entry.kind = "str" =>
         output = create_config_dict(aslist, input.datafile, input.datatype,
                                     input.glob)
    /\ (entry.kind = "dict" /\ output.exc = "none") =>
         \A i \in 1..Len(entry.v) :
           LET name == give_name(entry.v[i][1]).value IN
           name \in DOMAIN output.paths =>
             SubmodsAt(output.value, output.paths[name]) =
               {IterOf(entry.v[i][2])[k] :
                  k \in 1..Len(IterOf(entry.v[i][2]))} \cup {"grid3d"}

\* A configuration whose datafile entry is a bare string has given a dict
\* with a key.
C19_Witness ==
  /\ stage = "returned"
  /\ dict_get(SimConfigOf(input), "datafile", PyNone).kind = "str"
  /\ output.exc = "none"
  /\ output.value # <<>>

\* ------------------------------------------------------------------ C20
\* C20: in every returned dict, the options of every submodule of every
\* path hold only keys registered for the submodule besides arrow, and
\* hold arrow, which is FALSE only where the configuration sets it FALSE.
C20_OptionsFilteredArrowAlwaysSet ==
  (stage = "returned" /\ output.exc = "none") =>
    \A i \in 1..Len(output.value) :
      LET inner == output.value[i][2] IN
      \A j \in 1..Len(inner) :
        LET submod == inner[j][1]
            opts == inner[j][2] IN
        submod # "grid3d" =>
          /\ dict_keyset(opts)
               \subseteq SUBMOD_DICT[submod].options \cup {"arrow"}
          /\ "arrow" \in dict_keyset(opts)
          /\ dict_get(opts, "arrow", TRUE) = FALSE =>
               \E o \in OptionSamples :
                 /\ <<"arrow", FALSE>> \in Range(o)
                 /\ \/ dict_get(SimConfigOf(input), "options", PyNone)
                         = PyDict(o)
                    \/ /\ SeedOf(input).kind = "dict"
                       /\ \E e \in dict_values(SeedOf(input).v) :
                            e.kind = "dict" /\ PyDict(o) \in dict_values(e.v)

\* ------------------------------------------------------------------ C14
\* C14: when the extractor raises FileNotFoundError, ValueError or
\* TypeError for a registered submodule, get_results returns None and
\* raises nothing; the exception is logged as the trace and no convertor
\* is called.
C14_ExtractionErrorGivesNone ==
  (stage = "returned" /\ IsSubmod(input.submod)
   /\ input.extract \in {"FileNotFoundError", "ValueError", "TypeError"}) =>
    /\ output.exc = "none"
    /\ output.value = NoFrame
    /\ output.trace = input.extract
    /\ output.convertorCalls = <<>>

\* The extractor has raised ValueError and get_results has returned.
C14_Witness ==
  /\ stage = "returned"
  /\ IsSubmod(input.submod)
  /\ input.extract = "ValueError"
  /\ output.value = NoFrame

\* ------------------------------------------------------------------ C15
\* The extractor has given a frame of a registered submodule and the
\* conversion to arrow has been asked for.
ConversionAsked ==
  /\ stage = "returned"
  /\ IsSubmod(input.submod)
  /\ input.extract = "frame"
  /\ dict_get(input.kwargs, "arrow", TRUE)

RECURSIVE PairsFrom(_, _, _, _)
PairsFrom(nd, ns, i, j) ==
  IF i > nd THEN <<>>
  ELSE IF j > ns THEN PairsFrom(nd, ns, i + 1, 1)
  ELSE <<<<i, j>>>> \o PairsFrom(nd, ns, i, j + 1)

\* C12: export_with_config hands every pair of datafile and submodule to
\* the extraction, in the order of the loops, whatever happened to the
\* pairs before it.
C12_EveryPairAttempted ==
  stage = "returned" =>
    output.attempted =
      PairsFrom(Len(input.datafiles), Len(input.submods), 1, 1)

\* ------------------------------------------------------------------ C13
\* C13: a run of main that gets past read_config has called read_config
\* once, has constructed exactly one Dispatcher and has called its finish()
\* exactly once, and it has returned also when nothing was uploaded.
C13_OneDispatcherFinishedOnce ==
  (stage = "returned" /\ input.help_on = "No help") =>
    /\ output.resolverCalls = 1
    /\ output.completed
    /\ output.dispatchers = 1
    /\ output.finishCalls = 1

\* ------------------------------------------------------------------ C21
\* The configuration {datafile: ["R"], datatypes: ["summary"]} resolved, with
\* no override, in a run path whose only file is m/R-0.DATA.
ScenarioGlob == << <<"m", "/", "R", "-", "0">> \o DotDATA >>

ScenarioConfig ==
  << <<"sim2sumo", PyDict(<< <<"datafile", PyList(<<NameR>>)>>,
                             <<"datatypes", PyList(<<"summary">>)>> >>)>> >>

ScenarioResolved ==
  /\ stage = "returned"
  /\ input.config = ScenarioConfig
  /\ input.glob = ScenarioGlob
  /\ input.datafile = PyNone
  /\ input.datatype = PyNone

\* C21 (as stated): the scenario resolves to a mapping with the resolved
\* path of R-0.DATA as its one key, whose value is exactly
\* {"summary": {"arrow": True}} with no other entry.
C21_ScenarioMapsToSummaryOnly ==
  ScenarioResolved =>
    /\ output.exc = "none"
    /\ output.value =
         << <<ScenarioGlob[1],
              << <<"summary", << <<"arrow", TRUE>> >> >> >> >> >>

\* C21 (amended): the scenario resolves to a mapping with the resolved path
\* of R-0.DATA as its one key, whose value holds the entry
\* "summary": {"arrow": True} and, after it, the entry "grid3d": False, and
\* nothing else.
C21_ScenarioMapsToSummaryAndGrid3d ==
  ScenarioResolved =>
    /\ output.exc = "none"
    /\ output.value =
         << <<ScenarioGlob[1],
              << <<"summary", << <<"arrow", TRUE>> >> >>,
                 <<"grid3d", FALSE>> >> >> >>

C21_Witness ==
  /\ ScenarioResolved
  /\ Len(output.value) = 1
  /\ output.value[1][1] = ScenarioGlob[1]

\* ------------------------------------------------------------------ C22
\* sub occurs in s as a run of consecutive characters.
Contains(s, sub) ==
  \E k \in 0..(Len(s) - Len(sub)) : SubSeq(s, k + 1, k + Len(sub)) = sub

Packaged == stage = "returned" /\ output.exc = "none"

C23_NoVolumetricRunWhenToggleFalse ==
  (stage = "returned" /\ input.help_on = "No help"
     /\ input.grid3d = "false") =>
    /\ output.runsStarted = 0
    /\ output.gridsUploaded = 0

C25_OverridesOverruleConfiguration ==
  stage = "returned" =>
    /\ input.datafile # PyNone =>
         output.datafiles = PyList(<<input.datafile.v>>)
    /\ (input.datatype # PyNone /\ output.exc = "none") =>
         \A k \in 1..Len(output.value) :
           dict_keyset(output.value[k][2]) = {input.datatype.v, "grid3d"}

\* ------------------------------------------------------------------ C26
\* A table with index columns whose data columns do not fit in one
\* fragment next to the index columns has been packaged.
WideTablePackaged ==
  /\ stage = "returned"
  /\ input.table_index # {}
  /\ Cardinality(input.table_index) < input.window
  /\ Len(input.columns) - Cardinality(input.table_index)
       > input.window - Cardinality(input.table_index)

ColumnSet(unit) == {unit.columns[k] : k \in 1..Len(unit.columns)}

\* C26: for such a table the packager emits the primary unit with the
\* columns unchanged plus ceil(d / (window - i)) hidden fragments, d the
\* number of data columns and i the number of index columns; every
\* fragment holds all index columns and at most window columns, the
\* ordinals are distinct, every data column is in exactly one fragment and
\* the fragments together hold the columns of the table.
C26_FragmentsPartitionTheColumns ==
  WideTablePackaged =>
    LET i == Cardinality(input.table_index)
        d == Len(input.columns) - i
        per == input.window - i
        frags == 2..Len(output) IN
    /\ output[1].columns = input.columns /\ ~output[1].hidden
    /\ Len(output) - 1 = (d + per - 1) \div per
    /\ \A f \in frags :
         /\ output[f].hidden
         /\ input.table_index \subseteq ColumnSet(output[f])
         /\ Len(output[f].columns) <= input.window
         /\ Cardinality(ColumnSet(output[f])) = Len(output[f].columns)
    /\ \A f, g \in frags :
         output[f].fragment = output[g].fragment => f = g
    /\ UNION {ColumnSet(output[f]) : f \in frags} = ColumnSet(output[1])
    /\ \A c \in ColumnSet(output[1]) \ input.table_index :
         Cardinality({f \in frags : c \in ColumnSet(output[f])}) = 1

\* A table of seven columns, two of them index columns, was packaged with a
\* window of three: five fragments.
C26_Witness ==
  /\ WideTablePackaged
  /\ Len(input.columns) = 7
  /\ Cardinality(input.table_index) = 2
  /\ input.window = 3
  /\ Len(output) = 6

\* ------------------------------------------------------------------ C27
\* The units of a batch, and the units upload_restart builds: one per
\* property name and time step that yields a property that is not None.
UnitsOf(batch) == {batch[k] : k \in 1..Len(batch)}

UnitsBuilt ==
  {[prop |-> p, step |-> t] : p \in 1..Len(input.props), t \in 1..input.nsteps}
  \cap {u \in [prop : 1..MaxProps, step : 1..input.nsteps] :
          \/ input.props[u.prop] = "found"
          \/ input.props[u.prop] = "mixed" /\ u.step % 2 = 1}

\* C27: every unit upload_restart builds is in exactly one upload batch, at
\* one place of it, and the count returned is the number of distinct units
\* uploaded.
C27_EachRestartUnitUploadedOnce ==
  stage = "returned" =>
    LET uploaded == UNION {UnitsOf(output.batches[b]) :
                             b \in 1..Len(output.batches)} IN
    /\ uploaded = UnitsBuilt
    /\ \A u \in UnitsBuilt :
         Cardinality({<<b, k>> \in (1..Len(output.batches)) \X (1..(BatchLimit + 1)) :
                        /\ k <= Len(output.batches[b])
                        /\ output.batches[b][k] = u}) = 1
    /\ output.count = Cardinality(uploaded)

\* ------------------------------------------------------------------ C28
\* The sum of the sizes of the units of a list.
RECURSIVE SumOfSizes(_)
SumOfSizes(seq) ==
  IF seq = <<>> THEN 0 ELSE Head(seq).size + SumOfSizes(Tail(seq))

\* C28: in every state reached by add() and finish() calls, with the
\* uploads they make, the cumulative pending bytes are the sum of the sizes
\* of the pending units and the pending count is the number of pending
\* units.
C28_CountersMatchPendingList ==
  phase = "ready" =>
    /\ mem_count = SumOfSizes(objects)
    /\ count = Len(objects)

C30_GiveNameNeverRaises ==
  stage = "returned" => ~output.raised

====
